---------------------------- MODULE Spec2Model ----------------------------
(***************************************************************************)
(* A model of src/detect.py: the post-processing of the object detector    *)
(* (Detector.get_frames_ssd, Detector.get_frames_yolo with its per-class   *)
(* greedy suppression loop, Detector.bboxes_iou), the construction of the  *)
(* Detector (label table, target filter) and the frame loop of             *)
(* Detector.run.                                                           *)
(*                                                                         *)
(* Numbers.  Scores and thresholds are floats in the code; here they are   *)
(* integers in hundredths (50 is 0.5).  Pixel coordinates of the anchor    *)
(* path are exact rationals held as integers.  Every comparison the code   *)
(* makes on floats is made here on the exact values, so the model is the   *)
(* code up to floating-point rounding.                                     *)
(***************************************************************************)
EXTENDS Integers, Sequences, FiniteSets, TLC

VARIABLES
    detector,      \* the Detector's fields set by __init__ (a record)
    outputs,       \* the output tensors handed to get_frames
    decoded,       \* get_frames_yolo: boxes, class_ids, scores of lines 495-512
    bboxes,        \* get_frames_yolo: the candidate pool of line 527
    best_bboxes,   \* get_frames_yolo: the rows emitted by the suppression loop
    nms_log,       \* history: one event per iteration of the while loop
    resuppressed,  \* the suppression loop applied to best_bboxes
    frames,        \* what get_frames returned (None when it raised)
    raised,        \* the exception that ended the modelled call, or None
    argv,          \* main's options: [model, tpu, target] or [width, height]
    files,         \* the file system: [model_exists, labels]
    model_path,    \* main's model_path
    camera,        \* the camera: [acquired, started, stops]
    loop,          \* history of Detector.run's frame loop
    outcome,       \* how the program ended: "returned", an exception, or None
    pc             \* position of the modelled call

decodeVars == <<outputs, decoded, bboxes, best_bboxes, nms_log, resuppressed,
                frames, raised>>

runVars == <<argv, files, model_path, camera, loop, outcome>>

vars == <<detector, decodeVars, runVars, pc>>

None == "none"

\* The variables of main and Detector.run, where only get_frames is modelled
RunIdle ==
    /\ argv = None
    /\ files = None
    /\ model_path = None
    /\ camera = None
    /\ loop = None
    /\ outcome = None

\* The variables of get_frames, where it is not modelled
DecodeIdle ==
    /\ outputs = None
    /\ decoded = None
    /\ bboxes = None
    /\ best_bboxes = None
    /\ nms_log = None
    /\ resuppressed = None
    /\ frames = None
    /\ raised = None

----------------------------------------------------------------------------
(* Helpers on sequences and numbers                                        *)

Max2(a, b) == IF a >= b THEN a ELSE b
Min2(a, b) == IF a <= b THEN a ELSE b

Range(s) == {s[i] : i \in 1..Len(s)}

\* All sequences over S of length 0..n
SeqsUpTo(S, n) == UNION {[1..k -> S] : k \in 0..n}

\* s without its k-th element
RemoveAt(s, k) == [i \in 1..(Len(s) - 1) |-> IF i < k THEN s[i] ELSE s[i + 1]]

\* The orders in which the elements of the finite set S can be listed
Orders(S) ==
    {o \in [1..Cardinality(S) -> S] : \A i, j \in DOMAIN o : i # j => o[i] # o[j]}

----------------------------------------------------------------------------
(* Detector.bboxes_iou.  A box is <<xmin, ymin, xmax, ymax>>.              *)

IouNum == 213
IouDen == 1000

BoxArea(b) == (b[3] - b[1]) * (b[4] - b[2])

InterArea(b1, b2) ==
    LET w == Max2(Min2(b1[3], b2[3]) - Max2(b1[1], b2[1]), 0)
        h == Max2(Min2(b1[4], b2[4]) - Max2(b1[2], b2[2]), 0)
    IN  w * h

UnionArea(b1, b2) == BoxArea(b1) + (BoxArea(b2) - InterArea(b1, b2))

\* IouDen * a > IouNum * b for 0 <= a <= b, computed within 32 bits
AboveRatio(a, b) ==
    LET d == a - IouNum * (b \div IouDen)
    IN  d > 0 /\ (d >= IouNum \/ IouDen * d > IouNum * (b % IouDen))

\* iou > 0.213 of line 546, iou being max(inter / union, eps) with eps about
\* 1.2e-7 < 0.213.  A zero union makes the quotient nan, which compares false.
IouMask(b1, b2) ==
    /\ UnionArea(b1, b2) > 0
    /\ AboveRatio(InterArea(b1, b2), UnionArea(b1, b2))

----------------------------------------------------------------------------
(* get_frames_yolo, lines 514-550: masks and the suppression loop.  A row  *)
(* is [box, cls, score].                                                   *)

\* 0 < sqrt(area) < inf of lines 514-520
ScaleMask(b) == BoxArea(b) > 0

\* Variant of ScoreMask that also keeps a score equal to the threshold
ScoreMaskGe(score, threshold) == score >= threshold

\* scores > self.threshold of line 521
ScoreMask(score, threshold) == score > threshold

\* boxes[mask], class_ids[mask], scores[mask] of lines 522-529
MaskRows(rows, threshold) ==
    LET keep(r) == ScaleMask(r.box) /\ ScoreMask(r.score, threshold)
    IN  SelectSeq(rows, keep)

\* np.argmax over the scores of the rows at positions rem of B: the first
\* position holding the maximum
ArgMax(B, rem) ==
    CHOOSE k \in 1..Len(rem) :
        /\ \A j \in 1..Len(rem) : B[rem[j]].score <= B[rem[k]].score
        /\ \A j \in 1..(k - 1) : B[rem[j]].score < B[rem[k]].score

\* Variant of ClsMask that takes the rows of every class
ClsMaskAll(B, cls) == [i \in 1..Len(B) |-> i]

\* cls_mask = (bboxes[:, 4] == cls) of line 532: the positions of B, in order
ClsMask(B, cls) ==
    LET all == [i \in 1..Len(B) |-> i]
        same(i) == B[i].cls = cls
    IN  SelectSeq(all, same)

\* Variant of Survives that ignores the overlap with best
SurvivesNoIou(B, best, j) == B[j].score > 0

\* Whether row j stays in cls_bboxes after best was emitted, lines 541-550:
\* its weight is 1 (iou <= 0.213) and its weighted score is > 0
Survives(B, best, j) ==
    /\ ~IouMask(B[best].box, B[j].box)
    /\ B[j].score > 0

\* The while loop of lines 534-550 on the positions rem of B: the sequence of
\* its iterations, each [emit: the row picked, dropped: the rows it removed]
RECURSIVE WhileLoop(_, _)
WhileLoop(B, rem) ==
    IF Len(rem) = 0 THEN <<>>
    ELSE LET max_ind == ArgMax(B, rem)
             best == rem[max_ind]
             rest == RemoveAt(rem, max_ind)
             stays(j) == Survives(B, best, j)
             kept == SelectSeq(rest, stays)
         IN  <<[emit |-> best, dropped |-> Range(rest) \ Range(kept)]>>
                 \o WhileLoop(B, kept)

\* The for loop of lines 531-550 over the classes in the order given
RECURSIVE ForLoop(_, _)
ForLoop(B, order) ==
    IF Len(order) = 0 THEN <<>>
    ELSE WhileLoop(B, ClsMask(B, order[1])) \o ForLoop(B, Tail(order))

\* set(class_ids) of line 526
UniqueClassIds(B) == {B[i].cls : i \in 1..Len(B)}

\* best_bboxes of a log
Emitted(B, log) == [i \in 1..Len(log) |-> B[log[i].emit]]

----------------------------------------------------------------------------
(* get_frames_yolo, lines 444-512: the variant's parameter set and the     *)
(* decoding of the output tensors.                                         *)
(*                                                                         *)
(* A tensor is [grid, rows]: a grid x grid feature map of which rows lists *)
(* the predictions that matter, in tensor order; every prediction not      *)
(* listed has zero width and height and is discarded by the scale mask.    *)
(* A prediction is [gx, gy, a, xy, wh, conf, prob]: its cell, its anchor   *)
(* (1..3), raw xy and wh (integers), the objectness and the class          *)
(* probabilities in tenths.  Decoded coordinates are in units of 1/40      *)
(* pixel, which holds them exactly: xy_scale is in twentieths and the      *)
(* corners are centre -/+ half the size.                                   *)

SubPixel == 2 * 20

\* anchors of lines 444-463
Anchors(version) ==
    CASE version = "yolov3-tiny" ->
            << <<<<10, 14>>, <<23, 27>>, <<37, 58>>>>,
               <<<<81, 82>>, <<135, 169>>, <<344, 319>>>> >>
      [] version = "yolov3" ->
            << <<<<10, 13>>, <<16, 30>>, <<33, 23>>>>,
               <<<<30, 61>>, <<62, 45>>, <<59, 119>>>>,
               <<<<116, 90>>, <<156, 198>>, <<373, 326>>>> >>
      [] version = "yolov4" ->
            << <<<<12, 16>>, <<19, 36>>, <<40, 28>>>>,
               <<<<36, 75>>, <<76, 55>>, <<72, 146>>>>,
               <<<<142, 110>>, <<192, 243>>, <<459, 401>>>> >>

\* xyscales of lines 449-463, in twentieths: 1.0, 1.2, 1.1 and 1.05
XYScales(version) ==
    CASE version = "yolov3-tiny" -> <<20, 20>>
      [] version = "yolov3" -> <<20, 20, 20>>
      [] version = "yolov4" -> <<24, 22, 21>>

\* The versions the if/elif chain of lines 444-465 accepts
SupportedVersion(version) == version \in {"yolov3-tiny", "yolov3", "yolov4"}

\* np.argmax(prob) and np.max(prob) of lines 494-496, prob = conf * prob:
\* the class id is the first 0-based position of the maximum
ClassOf(conf, prob) ==
    (CHOOSE k \in 1..Len(prob) :
        /\ \A j \in 1..Len(prob) : conf * prob[j] <= conf * prob[k]
        /\ \A j \in 1..(k - 1) : conf * prob[j] < conf * prob[k]) - 1

ScoreOf(conf, prob) == conf * prob[ClassOf(conf, prob) + 1]

\* Lines 504-512: clip to the model input, then zero a box left inverted
ClipBox(b, iw, ih) ==
    LET c == <<Max2(b[1], 0), Max2(b[2], 0),
               Min2(b[3], iw * SubPixel), Min2(b[4], ih * SubPixel)>>
    IN  IF c[1] > c[3] \/ c[2] > c[4] THEN <<0, 0, 0, 0>> ELSE c

\* Lines 468-502 and 504-512 for prediction r of tensor number i (from 1)
\* with grid g: strides, xy and wh decoding, score, corners, clipping
DecodeRow(det, i, g, r) ==
    LET stride == <<det.image_width \div g, det.image_height \div g>>
        anchor == Anchors(det.yolo_version)[i][r.a]
        xs == XYScales(det.yolo_version)[i]
        cx == ((2 * r.xy[1] * xs) - (xs - 20) + SubPixel * r.gx) * stride[1]
        cy == ((2 * r.xy[2] * xs) - (xs - 20) + SubPixel * r.gy) * stride[2]
        hw == 20 * r.wh[1] * anchor[1]
        hh == 20 * r.wh[2] * anchor[2]
    IN  [box |-> ClipBox(<<cx - hw, cy - hh, cx + hw, cy + hh>>,
                         det.image_width, det.image_height),
         cls |-> ClassOf(r.conf, r.prob),
         score |-> ScoreOf(r.conf, r.prob)]

\* The rows of tensor number i, decoded, in tensor order
DecodeTensor(det, i, t) ==
    [k \in 1..Len(t.rows) |-> DecodeRow(det, i, t.grid, t.rows[k])]

\* Lines 467-490: the tensors decoded and concatenated.  The loop indexes
\* anchors[i] for every tensor it is given.
RECURSIVE DecodeFrom(_, _, _)
DecodeFrom(det, outs, i) ==
    IF i > Len(outs) THEN <<>>
    ELSE DecodeTensor(det, i, outs[i]) \o DecodeFrom(det, outs, i + 1)

\* How lines 444-490 end for the tensors outs: the exception raised, or None
DecodeError(det, outs) ==
    IF ~SupportedVersion(det.yolo_version) THEN "NotImplementedError"
    ELSE IF Len(outs) > Len(Anchors(det.yolo_version)) THEN "IndexError"
    ELSE IF Len(outs) = 0 THEN "ValueError"
    ELSE None

----------------------------------------------------------------------------
(* Lines 551-571: names, target filter, threshold and the scaling of the   *)
(* emitted rows to the camera frame.                                       *)

\* The pairs <<camera, image>> size for which, in IEEE double arithmetic,
\* float(image) * (float(camera) / image) is below camera, so that int() of
\* it is camera - 1: 416.0 * (480.0 / 416) is 479.99999999999994
EdgeRoundsDown == {<<480, 416>>, <<240, 416>>}

\* int(x * self.scale_width) of lines 563-566 for x >= 0 in SubPixel units.
\* The product is taken exactly, but for x the image size itself, where
\* the double product is as in EdgeRoundsDown.
ScaleInt(x, cam, img) ==
    IF x = img * SubPixel /\ <<cam, img>> \in EdgeRoundsDown THEN cam - 1
    ELSE (x * cam) \div (img * SubPixel)

\* Lines 562-566
YoloBBox(det, b) ==
    <<Max2(0, ScaleInt(b[1], det.camera_width, det.image_width)),
      Max2(0, ScaleInt(b[2], det.camera_height, det.image_height)),
      Min2(det.camera_width, ScaleInt(b[3], det.camera_width, det.image_width)),
      Min2(det.camera_height,
           ScaleInt(b[4], det.camera_height, det.image_height))>>

\* self.id2label.get(cid) is not None
HasName(det, cid) == cid \in DOMAIN det.id2label

\* Lines 555-561: the row is not skipped
YoloKeep(det, r) ==
    /\ HasName(det, r.cls)
    /\ ~(det.target_id # -1 /\ det.target_id # r.cls)
    /\ ~(r.score < det.threshold)

\* Lines 551-572
YoloFrames(det, best) ==
    LET keep(r) == YoloKeep(det, r)
        kept == SelectSeq(best, keep)
    IN  [k \in 1..Len(kept) |->
            [name |-> det.id2label[kept[k].cls],
             prob |-> kept[k].score,
             bbox |-> YoloBBox(det, kept[k].box)]]

----------------------------------------------------------------------------
(* The Detector's fields (lines 315-387)                                   *)

MkDetector(yolo, version, labels, target, threshold, cam, img) ==
    [is_yolo |-> yolo, yolo_version |-> version,
     id2label |-> labels, target_id |-> target, threshold |-> threshold,
     camera_width |-> cam[1], camera_height |-> cam[2],
     image_width |-> img[1], image_height |-> img[2]]

\* Label tables: class id -> name (id2label)
Labels01 == (0 :> "person") @@ (1 :> "bicycle")

----------------------------------------------------------------------------
(* The suppression stage alone: lines 521-550 applied to decoded rows with *)
(* valid boxes, then applied again to its own survivors.                   *)

MaxCand == 3

\* Three boxes A, B, C with IoU(A, C) = 0.9, IoU(B, C) = 14000 / 62000 > 0.213
\* and IoU(A, B) = 14000 / 66000 < 0.213
NmsBoxes == {<<0, 60, 200, 260>>, <<100, 0, 300, 200>>, <<0, 60, 200, 240>>}
NmsClasses == {0, 1}
NmsScores == {0, 60, 80}
NmsThresholds == {-10, 50}
NmsRows == [box : NmsBoxes, cls : NmsClasses, score : NmsScores]

InitNms ==
    /\ detector \in {MkDetector(TRUE, "yolov3", Labels01, -1, t,
                                <<640, 480>>, <<416, 416>>) : t \in NmsThresholds}
    /\ decoded \in SeqsUpTo(NmsRows, MaxCand)
    /\ outputs = None
    /\ bboxes = None
    /\ best_bboxes = None
    /\ nms_log = None
    /\ resuppressed = None
    /\ frames = None
    /\ raised = None
    /\ RunIdle
    /\ pc = "decoded"

\* Lines 521-550
Suppress ==
    /\ pc = "decoded"
    /\ LET pool == MaskRows(decoded, detector.threshold)
       IN  \E order \in Orders(UniqueClassIds(pool)) :
               /\ bboxes' = pool
               /\ nms_log' = ForLoop(pool, order)
               /\ best_bboxes' = Emitted(pool, ForLoop(pool, order))
    /\ pc' = "suppressed"
    /\ UNCHANGED <<detector, outputs, decoded, resuppressed, frames, raised,
                   runVars>>

\* Lines 526-550 with best_bboxes as the pool
Resuppress ==
    /\ pc = "suppressed"
    /\ \E order \in Orders(UniqueClassIds(best_bboxes)) :
           resuppressed' = Emitted(best_bboxes, ForLoop(best_bboxes, order))
    /\ pc' = "resuppressed"
    /\ UNCHANGED <<detector, outputs, decoded, bboxes, best_bboxes, nms_log,
                   frames, raised, runVars>>

NextNms == Suppress \/ Resuppress

SpecNms == InitNms /\ [][NextNms]_vars

----------------------------------------------------------------------------
(* get_frames_yolo as a whole, on output tensors of every count from 0 to  *)
(* MaxTensors.                                                             *)

MaxTensors == 4

Pred(gx, gy, a, xy, wh, conf, prob) ==
    [gx |-> gx, gy |-> gy, a |-> a, xy |-> xy, wh |-> wh,
     conf |-> conf, prob |-> prob]

\* The predictions a tensor of grid g may list, one choice per entry.  Over
\* three classes:
\*   1  nothing;
\*   2  a box twice its anchor in the middle cell, class 0, score 1.0;
\*   3  the same box, class 1, score 0.8, and a box of score 0.5 on anchor 2;
\*   4  a box 100 times its anchor at cell (0, 0), reaching beyond every edge;
\*   5  a box of negative width, and a box of class 2, which has no label;
\*   6  a box of zero width, and a box of score 0.3.
YoloRowChoices(g) ==
    << <<>>,
       << Pred(g \div 2, g \div 2, 1, <<1, 1>>, <<2, 2>>, 10, <<10, 0, 0>>) >>,
       << Pred(g \div 2, g \div 2, 1, <<1, 1>>, <<2, 2>>, 10, <<0, 8, 0>>),
          Pred(g \div 2, g \div 2, 2, <<1, 1>>, <<2, 2>>, 10, <<5, 0, 0>>) >>,
       << Pred(0, 0, 3, <<0, 0>>, <<100, 100>>, 10, <<6, 0, 0>>) >>,
       << Pred(g \div 2, g \div 2, 1, <<1, 1>>, <<-2, 2>>, 10, <<9, 0, 0>>),
          Pred(g \div 2, g \div 2, 1, <<1, 1>>, <<2, 2>>, 10, <<0, 0, 9>>) >>,
       << Pred(1, 1, 1, <<1, 1>>, <<0, 2>>, 10, <<10, 0, 0>>),
          Pred(1, 1, 2, <<1, 1>>, <<2, 2>>, 10, <<3, 0, 0>>) >> >>

\* The grid of the i-th output tensor of a 416 x 416 model: strides 8, 16
\* and 32, or 16 and 32 for the tiny model
GridOf(version, i) ==
    IF version = "yolov3-tiny"
    THEN (IF i = 1 THEN 26 ELSE 13)
    ELSE (IF i = 1 THEN 52 ELSE IF i = 2 THEN 26 ELSE 13)

YoloVersions == {"yolov3-tiny", "yolov3", "yolov4", "yolov3_edgetpu"}
YoloTargets == {-1, 1}
YoloThresholds == {30, 50}
YoloCameras == {<<640, 480>>, <<480, 640>>}

\* n output tensors, the i-th listing the predictions of choice f[i]
YoloOutputs(version, n, f) ==
    [i \in 1..n |-> [grid |-> GridOf(version, i),
                     rows |-> YoloRowChoices(GridOf(version, i))[f[i]]]]

InitYolo ==
    /\ \E v \in YoloVersions, tg \in YoloTargets, th \in YoloThresholds,
          cam \in YoloCameras :
           detector = MkDetector(TRUE, v, Labels01, tg, th, cam, <<416, 416>>)
    /\ \E n \in 0..MaxTensors : \E f \in [1..n -> 1..6] :
           outputs = YoloOutputs(detector.yolo_version, n, f)
    /\ decoded = None
    /\ bboxes = None
    /\ best_bboxes = None
    /\ nms_log = None
    /\ resuppressed = None
    /\ frames = None
    /\ raised = None
    /\ RunIdle
    /\ pc = "call"

\* Detector.get_frames_yolo(outputs), lines 442-572
GetFramesYolo ==
    /\ pc = "call"
    /\ detector.is_yolo
    /\ IF DecodeError(detector, outputs) # None
       THEN /\ raised' = DecodeError(detector, outputs)
            /\ pc' = "raised"
            /\ UNCHANGED <<decoded, bboxes, best_bboxes, nms_log, frames>>
       ELSE LET dec == DecodeFrom(detector, outputs, 1)
                pool == MaskRows(dec, detector.threshold)
            IN  \E order \in Orders(UniqueClassIds(pool)) :
                    /\ decoded' = dec
                    /\ bboxes' = pool
                    /\ nms_log' = ForLoop(pool, order)
                    /\ best_bboxes' = Emitted(pool, ForLoop(pool, order))
                    /\ frames' = YoloFrames(detector,
                                            Emitted(pool, ForLoop(pool, order)))
                    /\ raised' = None
                    /\ pc' = "returned"
    /\ UNCHANGED <<detector, outputs, resuppressed, runVars>>

----------------------------------------------------------------------------
(* get_frames_ssd, lines 390-417.  outputs is <<boxes, class_ids, scores,   *)
(* count>>: N boxes <<ymin, xmin, ymax, xmax>> in 64ths of the frame (so    *)
(* that the float32 values and their products with the frame size are      *)
(* exact), N class ids, N scores and the valid count.                       *)

NormDen == 64

\* int(x) of a float n / d, d > 0: truncation toward zero
Trunc(n, d) == IF n >= 0 THEN n \div d ELSE -((-n) \div d)

\* Lines 407-415: <<xmin, ymin, xmax, ymax>> in pixels of the camera frame
SsdBBox(det, b) ==
    <<Max2(0, Trunc(b[2] * det.camera_width, NormDen)),
      Max2(0, Trunc(b[1] * det.camera_height, NormDen)),
      Min2(det.camera_width, Trunc(b[4] * det.camera_width, NormDen)),
      Min2(det.camera_height, Trunc(b[3] * det.camera_height, NormDen))>>

\* Lines 398-406: entry i is not skipped
SsdKeep(det, cid, prob) ==
    /\ HasName(det, cid)
    /\ ~(det.target_id # -1 /\ det.target_id # cid)
    /\ ~(prob < det.threshold)

\* Variant of SsdRange that walks every entry of the tensors
SsdRangeAll(outs) == 1..Len(outs[2])

\* range(count) of line 397, as positions from 1
SsdRange(outs) == 1..outs[4]

\* Lines 396-417: the loop over range(count)
RECURSIVE SsdLoop(_, _, _)
SsdLoop(det, outs, i) ==
    IF i \notin SsdRange(outs) THEN <<>>
    ELSE (IF SsdKeep(det, outs[2][i], outs[3][i])
          THEN <<[name |-> det.id2label[outs[2][i]],
                  prob |-> outs[3][i],
                  bbox |-> SsdBBox(det, outs[1][i])]>>
          ELSE <<>>) \o SsdLoop(det, outs, i + 1)

\* How get_frames_ssd ends: the assert of line 391; class_ids[i] of line 398
\* beyond the N entries, or into the 0-d array squeeze() makes of one entry
SsdError(outs) ==
    IF Len(outs) # 4 THEN "AssertionError"
    ELSE IF outs[4] > Len(outs[2]) \/ (outs[4] >= 1 /\ Len(outs[2]) = 1)
         THEN "IndexError"
    ELSE None

MaxDet == 3

\* The entries the tensors may hold: [box, cls, score]
SsdEntries ==
    { [box |-> <<8, 8, 33, 32>>, cls |-> 0, score |-> 90],
      [box |-> <<8, 8, 33, 32>>, cls |-> 1, score |-> 50],
      [box |-> <<-8, -8, 72, 72>>, cls |-> 0, score |-> 90],
      [box |-> <<8, 8, 33, 32>>, cls |-> 5, score |-> 90],
      [box |-> <<8, 72, 32, 80>>, cls |-> 1, score |-> 90],
      [box |-> <<8, -16, 32, -8>>, cls |-> 0, score |-> 90],
      [box |-> <<8, 8, 33, 32>>, cls |-> 0, score |-> 30] }

SsdTargets == {-1, 1}
SsdThresholds == {50}

\* The first n of <<boxes, class_ids, scores, count, one more tensor>>
SsdOutputs(es, count, n) ==
    SubSeq(<< [i \in 1..Len(es) |-> es[i].box],
              [i \in 1..Len(es) |-> es[i].cls],
              [i \in 1..Len(es) |-> es[i].score],
              count,
              <<>> >>, 1, n)

InitSsd ==
    /\ \E tg \in SsdTargets, th \in SsdThresholds :
           detector = MkDetector(FALSE, None, Labels01, tg, th,
                                 <<640, 480>>, <<300, 300>>)
    /\ \E N \in 0..MaxDet : \E es \in [1..N -> SsdEntries] :
       \E count \in 0..(N + 1), n \in {3, 4, 5} :
           outputs = SsdOutputs(es, count, n)
    /\ decoded = None
    /\ bboxes = None
    /\ best_bboxes = None
    /\ nms_log = None
    /\ resuppressed = None
    /\ frames = None
    /\ raised = None
    /\ RunIdle
    /\ pc = "call"

\* Detector.get_frames_ssd(outputs), lines 390-417
GetFramesSsd ==
    /\ pc = "call"
    /\ ~detector.is_yolo
    /\ IF SsdError(outputs) # None
       THEN /\ raised' = SsdError(outputs)
            /\ pc' = "raised"
            /\ frames' = frames
       ELSE /\ frames' = SsdLoop(detector, outputs, 1)
            /\ raised' = None
            /\ pc' = "returned"
    /\ UNCHANGED <<detector, outputs, decoded, bboxes, best_bboxes, nms_log,
                   resuppressed, runVars>>

\* self.get_frames(outputs) of line 595 on the tensors of either family
InitDecode == InitSsd \/ InitYolo

NextDecode == GetFramesYolo \/ GetFramesSsd

SpecDecode == InitDecode /\ [][NextDecode]_vars

----------------------------------------------------------------------------
(* main, lines 636-690: the model path                                     *)

\* model_path of lines 647-676, as the two pieces the code concatenates
ModelPath(model, tpu) ==
    CASE model = "yolov3" ->
            <<"yolo/yolov3", IF tpu THEN "_edgetpu.tflite" ELSE ".tflite">>
      [] model = "yolov3-tiny" ->
            <<"yolo/yolov3-tiny", IF tpu THEN "_edgetpu.tflite" ELSE ".tflite">>
      [] model = "yolov4" ->
            <<"yolo/yolov4", IF tpu THEN "_edgetpu.tflite" ELSE ".tflite">>
      [] model = "face" ->
            <<"models/mobilenet_ssd_v2_",
              IF tpu THEN "face_quant_postprocess_edgetpu.tflite"
                     ELSE "face_quant_postprocess.tflite">>
      [] OTHER ->
            <<"models/mobilenet_ssd_v2_",
              IF tpu THEN "coco_quant_postprocess_edgetpu.tflite"
                     ELSE "coco_quant_postprocess.tflite">>

\* 'yolo' in model_path, line 315
HasYolo(path) == path[1] \in {"yolo/yolov3", "yolo/yolov3-tiny", "yolo/yolov4"}

\* 'edgetpu' in model_path, line 322
HasEdgeTpu(path) ==
    path[2] \in {"_edgetpu.tflite", "face_quant_postprocess_edgetpu.tflite",
                 "coco_quant_postprocess_edgetpu.tflite"}

\* os.path.splitext(os.path.basename(model_path))[0], lines 317-319
YoloVersion(path) ==
    CASE path = <<"yolo/yolov3", ".tflite">> -> "yolov3"
      [] path = <<"yolo/yolov3", "_edgetpu.tflite">> -> "yolov3_edgetpu"
      [] path = <<"yolo/yolov3-tiny", ".tflite">> -> "yolov3-tiny"
      [] path = <<"yolo/yolov3-tiny", "_edgetpu.tflite">> -> "yolov3-tiny_edgetpu"
      [] path = <<"yolo/yolov4", ".tflite">> -> "yolov4"
      [] path = <<"yolo/yolov4", "_edgetpu.tflite">> -> "yolov4_edgetpu"

----------------------------------------------------------------------------
(* Detector.__init__, lines 326-352: the label table and the target.  A    *)
(* line of models/coco_labels.txt is [idx_ok, idx, name_ok, name]: whether *)
(* its first column parses as an int, that int, whether a second column    *)
(* follows, and that column as a sequence of characters.  A name, a label  *)
(* and the target are sequences of characters.                             *)

All == <<"a", "l", "l">>

\* info[1].replace(' ', '_') of line 337
Underscored(name) ==
    [i \in 1..Len(name) |-> IF name[i] = " " THEN "_" ELSE name[i]]

\* What parsing the line raises (lines 335-337): int(info[0]) comes first
LineError(line) ==
    IF ~line.idx_ok THEN "ValueError"
    ELSE IF ~line.name_ok THEN "IndexError"
    ELSE None

\* Variant of ParseError in which a line that does not parse is passed over
ParseErrorSkipped(lines) == None

\* What the while loop of lines 334-345 raises: the error of the first line
\* that does not parse
ParseError(lines) ==
    IF \A k \in 1..Len(lines) : LineError(lines[k]) = None THEN None
    ELSE LineError(lines[CHOOSE k \in 1..Len(lines) :
                            /\ LineError(lines[k]) # None
                            /\ \A j \in 1..(k - 1) : LineError(lines[j]) = None])

\* Variant of ClassKey with the printed index for both families
ClassKeyUnified(is_yolo, line, off) == line.idx

\* The class id line number off (from 0) is stored under, lines 338-343
ClassKey(is_yolo, line, off) == IF is_yolo THEN off ELSE line.idx

\* The position of the last line to assign a key, as a dict keeps the last
LastWith(lines, Test(_)) ==
    CHOOSE k \in 1..Len(lines) :
        Test(k) /\ \A j \in (k + 1)..Len(lines) : ~Test(j)

\* self.id2label after the loop
Id2Label(is_yolo, lines) ==
    [id \in {ClassKey(is_yolo, lines[k], k - 1) : k \in 1..Len(lines)} |->
        LET has(k) == ClassKey(is_yolo, lines[k], k - 1) = id
        IN  Underscored(lines[LastWith(lines, has)].name)]

\* self.label2id after the loop
Label2Id(is_yolo, lines) ==
    [label \in {Underscored(lines[k].name) : k \in 1..Len(lines)} |->
        LET has(k) == Underscored(lines[k].name) = label
            k == LastWith(lines, has)
        IN  ClassKey(is_yolo, lines[k], k - 1)]

\* How lines 326-352 end: the exception raised, or None
InitError(path, fs, target) ==
    IF ~fs.labels_exist THEN "Exception"
    ELSE IF ParseError(fs.labels) # None THEN ParseError(fs.labels)
    ELSE IF target # All
            /\ target \notin DOMAIN Label2Id(HasYolo(path), fs.labels)
         THEN "ValueError"
    ELSE None

\* self.target_id of lines 347-352
TargetId(label2id, target) == IF target = All THEN -1 ELSE label2id[target]

----------------------------------------------------------------------------
(* main, Detector.__init__ and Detector.run as a process.  loop counts     *)
(* what the frame loop did: frames captured, calls of detect_objects,      *)
(* calls of clear, of draw_objects and of update, the frame on which the   *)
(* inference raised (0: none), the step a KeyboardInterrupt arrived in     *)
(* (None: none), the exception that is propagating and the yolo_version    *)
(* whose branch of lines 444-463 get_frames_yolo last took (None: none).   *)

MaxLines == 2
MaxFrames == 2

Line(idx_ok, idx, name_ok, name) ==
    [idx_ok |-> idx_ok, idx |-> idx, name_ok |-> name_ok, name |-> name]

\* "0 p", "2 b", "5 t l", "x q" (no index) and "7" (no name)
LabelLines ==
    { Line(TRUE, 0, TRUE, <<"p">>),
      Line(TRUE, 2, TRUE, <<"b">>),
      Line(TRUE, 5, TRUE, <<"t", " ", "l">>),
      Line(FALSE, 0, TRUE, <<"q">>),
      Line(TRUE, 7, FALSE, <<>>) }

\* Label files: the names are pairwise distinct and so are the indices, as
\* in a label table
LabelFiles ==
    {f \in SeqsUpTo(LabelLines, MaxLines) :
        \A i, j \in 1..Len(f) : i # j => f[i] # f[j]}

Models == {"yolov3", "yolov3-tiny", "yolov4", "face", "coco"}
Targets == {All, <<"p">>, <<"t", "_", "l">>, <<"z">>}

InitRun ==
    /\ argv \in [model : Models, tpu : BOOLEAN, target : Targets]
    /\ \E ex, lex \in BOOLEAN, lf \in LabelFiles :
           /\ ~lex => lf = <<>>
           /\ files = [model_exists |-> ex, labels_exist |-> lex, labels |-> lf]
    /\ model_path = None
    /\ detector = None
    /\ camera = [acquired |-> FALSE, started |-> FALSE, stops |-> 0]
    /\ loop = [captured |-> 0, detect_calls |-> 0, cleared |-> 0, drawn |-> 0,
               updated |-> 0, failed_frame |-> 0, interrupted_in |-> None,
               pending |-> None, variant |-> None]
    /\ outcome = None
    /\ pc = "main"
    /\ DecodeIdle

\* main, lines 647-678: the model path and the assert on it
Main ==
    /\ pc = "main"
    /\ model_path' = ModelPath(argv.model, argv.tpu)
    /\ IF files.model_exists
       THEN pc' = "Detector.__init__" /\ outcome' = outcome
       ELSE pc' = "done" /\ outcome' = "AssertionError"
    /\ UNCHANGED <<detector, decodeVars, argv, files, camera, loop>>

\* Detector.__init__, lines 304-388, called at lines 679-688
DetectorInit ==
    /\ pc = "Detector.__init__"
    /\ IF InitError(model_path, files, argv.target) # None
       THEN /\ outcome' = InitError(model_path, files, argv.target)
            /\ pc' = "done"
            /\ detector' = detector
       ELSE /\ detector' =
                 [is_yolo |-> HasYolo(model_path),
                  yolo_version |-> IF HasYolo(model_path)
                                   THEN YoloVersion(model_path) ELSE None,
                  is_tpu |-> HasEdgeTpu(model_path),
                  id2label |-> Id2Label(HasYolo(model_path), files.labels),
                  label2id |-> Label2Id(HasYolo(model_path), files.labels),
                  target_id |->
                      TargetId(Label2Id(HasYolo(model_path), files.labels),
                               argv.target)]
            /\ pc' = "run"
            /\ outcome' = outcome
    /\ UNCHANGED <<decodeVars, argv, files, model_path, camera, loop>>

\* Detector.run, lines 599-606: get_camera
GetCamera ==
    /\ pc = "run"
    /\ camera' = [camera EXCEPT !.acquired = TRUE]
    /\ pc' = "start"
    /\ UNCHANGED <<detector, decodeVars, argv, files, model_path, loop, outcome>>

\* Line 607: camera.start()
Start ==
    /\ pc = "start"
    /\ camera' = [camera EXCEPT !.started = TRUE]
    /\ pc' = "capture"
    /\ UNCHANGED <<detector, decodeVars, argv, files, model_path, loop, outcome>>

\* Line 609: the next image of camera.yield_image(), which never ends
Capture ==
    /\ pc = "capture"
    /\ loop.captured < MaxFrames
    /\ loop' = [loop EXCEPT !.captured = @ + 1]
    /\ pc' = "detect"
    /\ UNCHANGED <<detector, decodeVars, argv, files, model_path, camera, outcome>>

\* Lines 610-613: detect_objects returns.  For a yolo detector get_frames
\* is get_frames_yolo (lines 375-376), which returns only after one of the
\* branches of lines 444-463 matched self.yolo_version
DetectReturns ==
    /\ pc = "detect"
    /\ detector.is_yolo => SupportedVersion(detector.yolo_version)
    /\ loop' = [loop EXCEPT !.detect_calls = @ + 1,
                            !.variant = IF detector.is_yolo
                                        THEN detector.yolo_version ELSE None]
    /\ pc' = "clear"
    /\ UNCHANGED <<detector, decodeVars, argv, files, model_path, camera, outcome>>

\* Line 611 for a yolo detector whose yolo_version matches no branch of
\* lines 444-463: get_frames_yolo raises NotImplementedError (line 465)
DetectUnsupported ==
    /\ pc = "detect"
    /\ detector.is_yolo /\ ~SupportedVersion(detector.yolo_version)
    /\ loop' = [loop EXCEPT !.detect_calls = @ + 1,
                            !.pending = "NotImplementedError"]
    /\ pc' = "finally"
    /\ UNCHANGED <<detector, decodeVars, argv, files, model_path, camera, outcome>>

\* Variant of DetectRaises in which the loop goes on to the next frame
DetectRaisesContinues ==
    /\ pc = "detect"
    /\ loop' = [loop EXCEPT !.detect_calls = @ + 1,
                            !.failed_frame = loop.captured]
    /\ pc' = "capture"
    /\ UNCHANGED <<detector, decodeVars, argv, files, model_path, camera, outcome>>

\* Line 611: detect_objects raises (interpreter.invoke of line 589, or
\* get_frames); no except clause matches, the finally clause runs
DetectRaises ==
    /\ pc = "detect"
    /\ loop' = [loop EXCEPT !.detect_calls = @ + 1,
                            !.failed_frame = loop.captured,
                            !.pending = "RuntimeError"]
    /\ pc' = "finally"
    /\ UNCHANGED <<detector, decodeVars, argv, files, model_path, camera, outcome>>

\* Line 614: camera.clear()
Clear ==
    /\ pc = "clear"
    /\ loop' = [loop EXCEPT !.cleared = @ + 1]
    /\ pc' = "draw"
    /\ UNCHANGED <<detector, decodeVars, argv, files, model_path, camera, outcome>>

\* Lines 615-617: draw_objects, draw_time, draw_count
Draw ==
    /\ pc = "draw"
    /\ loop' = [loop EXCEPT !.drawn = @ + 1]
    /\ pc' = "update"
    /\ UNCHANGED <<detector, decodeVars, argv, files, model_path, camera, outcome>>

\* Line 618: camera.update() returns
Update ==
    /\ pc = "update"
    /\ loop' = [loop EXCEPT !.updated = @ + 1]
    /\ pc' = "capture"
    /\ UNCHANGED <<detector, decodeVars, argv, files, model_path, camera, outcome>>

\* Variant of Interrupt in which run returns without its finally clause
InterruptSkipsFinally ==
    /\ pc \in {"capture", "detect", "clear", "draw", "update"}
    /\ loop' = [loop EXCEPT !.interrupted_in = pc]
    /\ pc' = "done"
    /\ outcome' = "returned"
    /\ UNCHANGED <<detector, decodeVars, argv, files, model_path, camera>>

\* A KeyboardInterrupt inside the try block of lines 608-618, in whatever
\* step (the user's interrupt, or CvCamera.update on key 'c', line 269):
\* the except clause of lines 619-620 swallows it
Interrupt ==
    /\ pc \in {"capture", "detect", "clear", "draw", "update"}
    /\ loop' = [loop EXCEPT !.interrupted_in = pc]
    /\ pc' = "finally"
    /\ UNCHANGED <<detector, decodeVars, argv, files, model_path, camera, outcome>>

\* Any other exception inside the try block, from the camera's capture or
\* from the drawing calls: as for detect_objects, only the finally clause
StepRaises ==
    /\ pc \in {"capture", "clear", "draw", "update"}
    /\ loop' = [loop EXCEPT !.pending = "Error"]
    /\ pc' = "finally"
    /\ UNCHANGED <<detector, decodeVars, argv, files, model_path, camera, outcome>>

\* Lines 621-623: camera.stop(), then the pending exception goes on to the
\* caller or run returns
Finally ==
    /\ pc = "finally"
    /\ camera' = [camera EXCEPT !.stops = @ + 1]
    /\ outcome' = IF loop.pending # None THEN loop.pending ELSE "returned"
    /\ pc' = "done"
    /\ UNCHANGED <<detector, decodeVars, argv, files, model_path, loop>>

NextRun ==
    \/ Main
    \/ DetectorInit
    \/ GetCamera
    \/ Start
    \/ Capture
    \/ DetectReturns
    \/ DetectUnsupported
    \/ DetectRaises
    \/ Clear
    \/ Draw
    \/ Update
    \/ Interrupt
    \/ StepRaises
    \/ Finally

SpecRun == InitRun /\ [][NextRun]_vars

----------------------------------------------------------------------------
(* The frame size: main's width and height options through                 *)
(* _round_buffer_dims (line 678) into the Detector (lines 380-381) and     *)
(* from there into get_camera (lines 599-601).  Python's int is unbounded: *)
(* value + (n - 1) does not wrap.                                          *)

MaxWidth == 70
MaxHeight == 36

\* Variant of _round_up that rounds to the multiple below
RoundDown(value, n) == n * (value \div n)

\* _round_up, lines 30-31
RoundUp(value, n) == n * ((value + (n - 1)) \div n)

\* _round_buffer_dims, lines 34-36
RoundBufferDims(dims) == <<RoundUp(dims[1], 32), RoundUp(dims[2], 16)>>

InitDims ==
    /\ argv \in [width : 1..MaxWidth, height : 1..MaxHeight]
    /\ detector = None
    /\ camera = None
    /\ files = None /\ model_path = None /\ loop = None /\ outcome = None
    /\ DecodeIdle
    /\ pc = "main"

\* main, lines 678-688: the rounded dimensions go to the Detector, which
\* keeps them as camera_width and camera_height (lines 380-381)
MainDims ==
    /\ pc = "main"
    /\ LET dims == RoundBufferDims(<<argv.width, argv.height>>)
       IN  detector' = [camera_width |-> dims[1], camera_height |-> dims[2]]
    /\ pc' = "run"
    /\ UNCHANGED <<decodeVars, runVars>>

\* Detector.run, lines 599-606: get_camera(width=self.camera_width,
\* height=self.camera_height, ...)
GetCameraDims ==
    /\ pc = "run"
    /\ camera' = [width |-> detector.camera_width,
                  height |-> detector.camera_height]
    /\ pc' = "start"
    /\ UNCHANGED <<detector, decodeVars, argv, files, model_path, loop, outcome>>

NextDims == MainDims \/ GetCameraDims

SpecDims == InitDims /\ [][NextDims]_vars

----------------------------------------------------------------------------
(* C1: NMS idempotence.  The suppression loop applied to its own survivors *)
(* returns exactly the survivors, and no two survivors of one class have   *)
(* IoU > 0.213 with each other.                                            *)
C1_NmsIdempotent ==
    /\ pc \in {"suppressed", "resuppressed"} =>
           \A i, j \in 1..Len(best_bboxes) :
               (i # j /\ best_bboxes[i].cls = best_bboxes[j].cls)
                   => ~IouMask(best_bboxes[i].box, best_bboxes[j].box)
    /\ pc = "resuppressed" =>
           /\ Range(resuppressed) = Range(best_bboxes)
           /\ Len(resuppressed) = Len(best_bboxes)

\* A pool of three rows of one class of which one was suppressed and two,
\* overlapping each other, survived and survived again
C1_Witness ==
    /\ pc = "resuppressed"
    /\ detector.threshold >= 0
    /\ Len(bboxes) = 3
    /\ Len(best_bboxes) = 2
    /\ best_bboxes[1].cls = best_bboxes[2].cls
    /\ InterArea(best_bboxes[1].box, best_bboxes[2].box) > 0
    /\ \E i \in 1..Len(nms_log) : nms_log[i].dropped # {}

\* The pool positions emitted by the suppression loop
EmittedIdx == {nms_log[k].emit : k \in 1..Len(nms_log)}

(* C2: per-class isolation.  Every row of the pool is either emitted or    *)
(* removed in an iteration whose emitted row has the same class_id, and    *)
(* never by a row of another class: two rows of different classes with     *)
(* identical coordinates that make up the pool are both emitted, whatever  *)
(* their scores and the order of the classes.                              *)
C2_PerClassIsolation ==
    pc \in {"suppressed", "resuppressed"} =>
        /\ \A k \in 1..Len(nms_log) : \A j \in nms_log[k].dropped :
               bboxes[j].cls = bboxes[nms_log[k].emit].cls
        /\ \A i \in 1..Len(bboxes) :
               \/ i \in EmittedIdx
               \/ \E k \in 1..Len(nms_log) : i \in nms_log[k].dropped
        /\ (/\ Len(bboxes) = 2
            /\ bboxes[1].box = bboxes[2].box
            /\ bboxes[1].cls # bboxes[2].cls) => EmittedIdx = {1, 2}

\* Two rows with the same box, different classes and different scores, both
\* emitted, the lower-scoring class first
C2_Witness ==
    /\ pc = "suppressed"
    /\ detector.threshold >= 0
    /\ Len(bboxes) = 2
    /\ bboxes[1].box = bboxes[2].box
    /\ bboxes[1].cls # bboxes[2].cls
    /\ Len(best_bboxes) = 2
    /\ best_bboxes[1].score < best_bboxes[2].score

----------------------------------------------------------------------------
(* Claims on get_frames_ssd and get_frames_yolo, under SpecDecode          *)

\* The target filter lets class id cid through
TargetOk(cid) == detector.target_id = -1 \/ detector.target_id = cid

\* frames holds a detection of this name, score and box
InFrames(name, prob, bbox) ==
    \E k \in 1..Len(frames) :
        frames[k] = [name |-> name, prob |-> prob, bbox |-> bbox]

\* Entry i of the direct strategy's tensors is within the valid count, has a
\* name, passes the target filter and the given test of its score
SsdEligible(i, ScoreTest(_)) ==
    /\ i \in 1..outputs[4]
    /\ outputs[2][i] \in DOMAIN detector.id2label
    /\ TargetOk(outputs[2][i])
    /\ ScoreTest(outputs[3][i])

\* Decoded row k of the anchor strategy has a box of positive area, a name,
\* passes the target filter and is the only candidate of its class
YoloAlone(k) ==
    /\ ScaleMask(decoded[k].box)
    /\ decoded[k].cls \in DOMAIN detector.id2label
    /\ TargetOk(decoded[k].cls)
    /\ \A j \in 1..Len(decoded) : j # k => decoded[j].cls # decoded[k].cls

(* C3 as claimed: in both decode paths a candidate whose score equals the  *)
(* threshold and which passes the class and target filters is retained in  *)
(* the output.                                                             *)
C3_BoundaryRetainedEverywhere ==
    pc = "returned" =>
        IF detector.is_yolo
        THEN \A k \in 1..Len(decoded) :
                (YoloAlone(k) /\ decoded[k].score = detector.threshold)
                    => InFrames(detector.id2label[decoded[k].cls],
                                decoded[k].score,
                                YoloBBox(detector, decoded[k].box))
        ELSE LET atThreshold(p) == p = detector.threshold
             IN  \A i \in 1..Len(outputs[2]) :
                     SsdEligible(i, atThreshold)
                         => InFrames(detector.id2label[outputs[2][i]],
                                     outputs[3][i],
                                     SsdBBox(detector, outputs[1][i]))

(* C3, amended: get_frames_ssd retains a candidate whose score equals the  *)
(* threshold (it rejects only score < threshold); get_frames_yolo puts a   *)
(* candidate in the pool only if its score is above the threshold, so one  *)
(* whose score equals the threshold is rejected, every detection it        *)
(* returns has a score above the threshold, and the score < threshold      *)
(* re-check after suppression rejects nothing.                             *)
C3_BoundaryPerPath ==
    pc = "returned" =>
        IF detector.is_yolo
        THEN /\ \A k \in 1..Len(decoded) :
                    ScaleMask(decoded[k].box) =>
                        (decoded[k] \in Range(bboxes)
                            <=> decoded[k].score > detector.threshold)
             /\ \A k \in 1..Len(best_bboxes) :
                    ~(best_bboxes[k].score < detector.threshold)
             /\ \A k \in 1..Len(frames) : frames[k].prob > detector.threshold
        ELSE LET atThreshold(p) == p = detector.threshold
                 below(p) == p < detector.threshold
             IN  \A i \in 1..Len(outputs[2]) :
                     /\ SsdEligible(i, atThreshold)
                            => InFrames(detector.id2label[outputs[2][i]],
                                        outputs[3][i],
                                        SsdBBox(detector, outputs[1][i]))
                     /\ SsdEligible(i, below)
                            => ~\E k \in 1..Len(frames) :
                                   frames[k].prob = outputs[3][i]

\* An anchor-strategy call that returned without a candidate whose score
\* equals the threshold, though it had a valid box, a name, the target's
\* class and no rival of its class
C3_Witness ==
    /\ pc = "returned"
    /\ detector.is_yolo
    /\ \E k \in 1..Len(decoded) :
           /\ YoloAlone(k)
           /\ decoded[k].score = detector.threshold
           /\ ~\E f \in 1..Len(frames) : frames[f].prob = decoded[k].score

(* C4 as claimed: every detection returned by either path has              *)
(* 0 <= xmin <= xmax <= frame_width and 0 <= ymin <= ymax <= frame_height, *)
(* and an xmax computed beyond the frame width is reported as exactly      *)
(* frame_width.                                                            *)
C4_BoxInvariant ==
    pc = "returned" =>
        /\ \A k \in 1..Len(frames) :
               LET b == frames[k].bbox
               IN  /\ 0 <= b[1] /\ b[1] <= b[3] /\ b[3] <= detector.camera_width
                   /\ 0 <= b[2] /\ b[2] <= b[4] /\ b[4] <= detector.camera_height
        /\ IF detector.is_yolo
           THEN LET keep(r) == YoloKeep(detector, r)
                    kept == SelectSeq(best_bboxes, keep)
                IN  \A k \in 1..Len(kept) :
                        kept[k].box[3] = detector.image_width * SubPixel
                            => frames[k].bbox[3] = detector.camera_width
           ELSE LET any(p) == ~(p < detector.threshold)
                IN  \A i \in 1..Len(outputs[2]) :
                        (SsdEligible(i, any) /\ outputs[1][i][4] > NormDen)
                            => \E k \in 1..Len(frames) :
                                   /\ frames[k].prob = outputs[3][i]
                                   /\ frames[k].bbox[3] = detector.camera_width

\* The positions of the direct strategy's entries that are to be returned
SsdExpected ==
    LET any(p) == ~(p < detector.threshold)
    IN  {i \in 1..Len(outputs[2]) : SsdEligible(i, any)}

(* C5: the list get_frames_ssd returns is exactly, in input order, the     *)
(* entries before the valid count that have a name, match the target       *)
(* filter and have a score not below the threshold: nothing at or after    *)
(* the count, nothing without a name, and nothing dropped for overlapping. *)
C5_DirectResult ==
    (pc = "returned" /\ ~detector.is_yolo) =>
        /\ Len(frames) = Cardinality(SsdExpected)
        /\ \A i \in SsdExpected :
               LET k == Cardinality({j \in SsdExpected : j <= i})
               IN  frames[k] = [name |-> detector.id2label[outputs[2][i]],
                                prob |-> outputs[3][i],
                                bbox |-> SsdBBox(detector, outputs[1][i])]

\* Three entries and a count of two: a first entry without a name and with
\* a score above the threshold, two more that overlap and pass every filter;
\* only the second is returned
C5_Witness ==
    /\ pc = "returned"
    /\ ~detector.is_yolo
    /\ Len(outputs[2]) = 3
    /\ outputs[4] = 2
    /\ outputs[2][1] \notin DOMAIN detector.id2label
    /\ outputs[3][1] > detector.threshold
    /\ SsdKeep(detector, outputs[2][2], outputs[3][2])
    /\ SsdKeep(detector, outputs[2][3], outputs[3][3])
    /\ outputs[1][2] = outputs[1][3]
    /\ Len(frames) = 1

(* C8 as claimed: for either family, when the number of output tensors     *)
(* differs from what the family or variant expects (4; one per anchor      *)
(* scale), decoding ends with an error and returns no list.                *)
C8_MismatchFatal ==
    LET expected == IF detector.is_yolo
                    THEN Len(Anchors(detector.yolo_version))
                    ELSE 4
    IN  (/\ pc \in {"returned", "raised"}
         /\ detector.is_yolo => SupportedVersion(detector.yolo_version)
         /\ Len(outputs) # expected)
            => (raised # None /\ frames = None)

----------------------------------------------------------------------------
LoopSteps == {"capture", "detect", "clear", "draw", "update"}

(* C6: guaranteed camera release.  Once run has started the camera,        *)
(* camera.stop() has not run while the frame loop is running, has run      *)
(* exactly once when run is over, whichever step of the per-frame sequence *)
(* the loop was left from, and a run left by a KeyboardInterrupt returns   *)
(* instead of raising.                                                     *)
C6_CameraReleasedOnce ==
    /\ camera.stops <= 1
    /\ pc \in LoopSteps \cup {"finally"} => camera.started /\ camera.stops = 0
    /\ (pc = "done" /\ camera.started) => camera.stops = 1
    /\ (pc = "done" /\ loop.interrupted_in \in LoopSteps) =>
           outcome = "returned"

C6_Witness ==
    /\ pc = "done"
    /\ loop.interrupted_in = "draw"
    /\ loop.captured = 2
    /\ camera.stops = 1
    /\ outcome = "returned"

(* C7: per-frame inference failure.  When detect_objects raised on frame   *)
(* n, it was called once per captured frame (no retry), frame n is the     *)
(* last one captured, clear, draw and update ran for the n - 1 frames      *)
(* before it only, and run ends with the camera stopped and that error as  *)
(* its outcome.                                                            *)
C7_InferenceFailureFatal ==
    loop.failed_frame # 0 =>
        /\ pc \in {"finally", "done"}
        /\ loop.captured = loop.failed_frame
        /\ loop.detect_calls = loop.failed_frame
        /\ loop.cleared = loop.failed_frame - 1
        /\ loop.drawn = loop.failed_frame - 1
        /\ loop.updated = loop.failed_frame - 1
        /\ pc = "done" => camera.stops = 1 /\ outcome = "RuntimeError"

C7_Witness ==
    /\ pc = "done"
    /\ loop.failed_frame = 2
    /\ loop.updated = 1
    /\ camera.stops = 1
    /\ outcome = "RuntimeError"

\* The configuration of the run is in error: no model file, no label file,
\* a label line without an integer index or without a name, or a target
\* other than 'all' that no line of the label file names
ConfigError ==
    \/ ~files.model_exists
    \/ ~files.labels_exist
    \/ \E k \in 1..Len(files.labels) :
           ~files.labels[k].idx_ok \/ ~files.labels[k].name_ok
    \/ /\ argv.target # All
       /\ \A k \in 1..Len(files.labels) :
              Underscored(files.labels[k].name) # argv.target

(* C9: configuration errors precede all frame processing.  In a run whose  *)
(* configuration is in error the camera is never acquired or started, no   *)
(* frame is captured or handed to detect_objects, and the run ends in main *)
(* or Detector.__init__ with an exception.                                 *)
C9_ConfigErrorsFirst ==
    ConfigError =>
        /\ pc \in {"main", "Detector.__init__", "done"}
        /\ ~camera.acquired /\ ~camera.started
        /\ loop.captured = 0 /\ loop.detect_calls = 0
        /\ pc = "done" =>
               outcome \in {"AssertionError", "Exception", "ValueError",
                            "IndexError"}

C9_Witness ==
    /\ pc = "done"
    /\ files.model_exists /\ files.labels_exist
    /\ Len(files.labels) = MaxLines
    /\ \A k \in 1..Len(files.labels) :
           files.labels[k].idx_ok /\ files.labels[k].name_ok
    /\ argv.target = <<"z">>
    /\ outcome = "ValueError"
    /\ ~camera.acquired

\* Detector.__init__ has returned
Constructed == pc \in {"run", "start", "finally"} \cup LoopSteps
               \/ (pc = "done" /\ camera.acquired)

(* C10: dual class-index interpretation.  After Detector.__init__, over a  *)
(* label file whose names and whose indices are pairwise distinct: for a   *)
(* yolo model the line at offset k (from 0) is class id k in id2label and  *)
(* in label2id whatever its first column says, for any other model it is   *)
(* the class id of its first column, and target_id is -1 for 'all' and     *)
(* otherwise the id that mapping gives the target's line.                  *)
C10_DualClassIndex ==
    Constructed =>
        /\ detector.is_yolo = (argv.model \in {"yolov3", "yolov3-tiny", "yolov4"})
        /\ \A k \in 1..Len(files.labels) :
               LET label == Underscored(files.labels[k].name)
                   id == IF detector.is_yolo THEN k - 1 ELSE files.labels[k].idx
               IN  /\ id \in DOMAIN detector.id2label
                   /\ detector.id2label[id] = label
                   /\ label \in DOMAIN detector.label2id
                   /\ detector.label2id[label] = id
                   /\ argv.target = label => detector.target_id = id
        /\ argv.target = All => detector.target_id = -1

C10_Witness ==
    /\ Constructed
    /\ detector.is_yolo
    /\ argv.target = <<"t", "_", "l">>
    /\ Len(files.labels) = 2
    /\ files.labels[2].idx = 5
    /\ detector.target_id = 1
    /\ detector.id2label[1] = <<"t", "_", "l">>

\* m is the smallest multiple of n that is >= v
SmallestMultipleGe(m, v, n) ==
    /\ m % n = 0
    /\ m >= v
    /\ \A k \in v..(m - 1) : k % n # 0

(* C11: frame-size alignment.  The width the Detector and the camera are   *)
(* given is the smallest multiple of 32 that is >= the requested width,    *)
(* the height the smallest multiple of 16 that is >= the requested height, *)
(* and a requested value that is already such a multiple is passed on as   *)
(* it is.                                                                  *)
C11_FrameSizeAligned ==
    /\ pc \in {"run", "start"} =>
        /\ SmallestMultipleGe(detector.camera_width, argv.width, 32)
        /\ SmallestMultipleGe(detector.camera_height, argv.height, 16)
        /\ argv.width % 32 = 0 => detector.camera_width = argv.width
        /\ argv.height % 16 = 0 => detector.camera_height = argv.height
    /\ pc = "start" =>
        /\ camera.width = detector.camera_width
        /\ camera.height = detector.camera_height

C11_Witness ==
    /\ pc = "start"
    /\ argv.width = 33 /\ camera.width = 64
    /\ argv.height = 32 /\ camera.height = 32

\* The iterations of the suppression loop that emitted a row of class cls
IterationsOf(cls) == {k \in 1..Len(nms_log) : bboxes[nms_log[k].emit].cls = cls}

\* The rows of the pool of class cls
CandidatesOf(cls) == {i \in 1..Len(bboxes) : bboxes[i].cls = cls}

\* Row i of the pool was emitted, or an emitted row of its class with a score
\* at least as high has IoU > 0.213 with it
EmittedOrOverlapped(i) ==
    \/ i \in EmittedIdx
    \/ \E e \in EmittedIdx :
           /\ bboxes[e].cls = bboxes[i].cls
           /\ bboxes[e].score >= bboxes[i].score
           /\ IouMask(bboxes[e].box, bboxes[i].box)

\* Per class: no more iterations than candidates, no row emitted twice,
\* scores emitted in non-increasing order, the first the class's maximum
GreedyOrder ==
    \A cls \in UniqueClassIds(bboxes) :
        /\ Cardinality(IterationsOf(cls)) <= Cardinality(CandidatesOf(cls))
        /\ IterationsOf(cls) # {}
        /\ \A k, l \in IterationsOf(cls) :
               k < l => /\ nms_log[k].emit # nms_log[l].emit
                        /\ bboxes[nms_log[k].emit].score
                               >= bboxes[nms_log[l].emit].score
        /\ \A k \in IterationsOf(cls) : \A i \in CandidatesOf(cls) :
               (\A l \in IterationsOf(cls) : k <= l)
                   => bboxes[nms_log[k].emit].score >= bboxes[i].score

(* C12: greedy NMS selection.  Per class the loop runs at most as many    *)
(* iterations as there are candidates and emits in non-increasing score    *)
(* order from the class's maximum, and every row of the pool is emitted or *)
(* has IoU > 0.213 with an emitted row of its class that scores at least   *)
(* as high.                                                                *)
C12_GreedySelection ==
    pc \in {"suppressed", "resuppressed"} =>
        /\ GreedyOrder
        /\ \A i \in 1..Len(bboxes) : EmittedOrOverlapped(i)

(* What the loop does guarantee of C12: the order and the iteration count *)
(* always; emitted-or-overlapped for every row whose score is positive,    *)
(* hence for every row when the confidence threshold is >= 0; and of two   *)
(* rows of one class with IoU 0.9 and scores 0.8 and 0.6 only the 0.8 one  *)
(* is emitted.  A row whose score is not positive can be dropped by the    *)
(* test of line 549 without any emitted row overlapping it.                *)
C12_GreedySelectionPositive ==
    pc \in {"suppressed", "resuppressed"} =>
        /\ GreedyOrder
        /\ \A i \in 1..Len(bboxes) :
               EmittedOrOverlapped(i) \/ bboxes[i].score <= 0
        /\ detector.threshold >= 0 =>
               \A i \in 1..Len(bboxes) : EmittedOrOverlapped(i)
        /\ (/\ Len(bboxes) = 2
            /\ bboxes[1].cls = bboxes[2].cls
            /\ 10 * InterArea(bboxes[1].box, bboxes[2].box)
                   = 9 * UnionArea(bboxes[1].box, bboxes[2].box)
            /\ {bboxes[1].score, bboxes[2].score} = {60, 80})
               => /\ Len(best_bboxes) = 1
                  /\ best_bboxes[1].score = 80

\* The pool is the two rows of the scenario, the 0.6 one first
C12_Witness ==
    /\ pc = "suppressed"
    /\ detector.threshold = 50
    /\ Len(bboxes) = 2
    /\ bboxes[1].cls = bboxes[2].cls
    /\ 10 * InterArea(bboxes[1].box, bboxes[2].box)
           = 9 * UnionArea(bboxes[1].box, bboxes[2].box)
    /\ bboxes[1].score = 60 /\ bboxes[2].score = 80
    /\ Len(best_bboxes) = 1
    /\ best_bboxes[1] = bboxes[2]

(* C13: variant parameter-set selection.  For the model selections        *)
(* yolov3-tiny, yolov3 and yolov4, with --tpu or without, get_frames_yolo  *)
(* takes the branch of parameters of the selected model and a frame's      *)
(* decoding never ends in NotImplementedError.                             *)
C13_VariantSelected ==
    argv.model \in {"yolov3-tiny", "yolov3", "yolov4"} =>
        /\ loop.pending # "NotImplementedError"
        /\ outcome # "NotImplementedError"
        /\ loop.variant # None => loop.variant = argv.model

============================================================================
